---- MODULE Spec2Model ----
(***************************************************************************)
(* Event-stream manager (package eventstreams, esManager): the registry of *)
(* LiveStreams, its startup paging over the persisted spec table, and the  *)
(* externally callable operations UpsertStream, StartStream, StopStream,   *)
(* ResetStream, DeleteStream and Close, run by concurrent callers.         *)
(*                                                                         *)
(* The manager's own code is translated statement by statement; one step   *)
(* of the model is one access to shared state (a persistence call, a       *)
(* registry access under the mutex, a call into a LiveStream).  The        *)
(* per-stream engine (eventStream: suspend, start, stop, delete,           *)
(* ensureActive, the producer and dispatcher tasks) is outside the         *)
(* manager's file and is modelled from the design document, section 4.4.   *)
(***************************************************************************)
EXTENDS Integers, Sequences, FiniteSets, TLC

\* ------------------------------------------------------------------ bounds
\* Largest persisted spec table the startup specification starts from.
MaxRows == 27
\* Most rows of a startup table that carry the status deleted.
MaxDeleted == 2
\* Stream IDs the callers and the ID generator draw from: 1..MaxIDs.
MaxIDs == 2
\* Sequence IDs are 0..MaxSeq, ordered as integers.
MaxSeq == 2
\* Most LiveStream objects alive (reachable or with tasks) at one time.
MaxObjs == 3
\* Operations the callers start in one run.
MaxOps == 3
\* Requests the HTTP clients send.
MaxReqs == 2

\* ------------------------------------------------------- program constants
\* const pageSize = 25 in initialize.
pageSize == 25

\* ------------------------------------------------------------------ values
IDs == 1..MaxIDs
SeqIDs == 0..MaxSeq
\* A nil *string / nil *eventStream / absent checkpoint row.
NoID == 0
NoStream == 0
NoCheckpoint == -1

EventStreamStatusStarted == "started"
EventStreamStatusStopped == "stopped"
EventStreamStatusDeleted == "deleted"
EventStreamStatusUnknown == "unknown"
\* esSpec.Status == nil
StatusNil == "nil"

\* The errors the operations return; ErrNone is a nil error.
ErrNone == "nil"
Msg404NoResult == "FF00164"
MsgESStartedOrStopped == "started-or-stopped"
ErrValidation == "validation"
ErrStorage == "storage"
ErrSuspend == "cancelled-waiting-stop"
ErrConflict == "conflict"

\* The manager without an HTTP server in front of it.
NoServer == [srv |-> "none"]

VARIABLES
    table,        \* persistence.EventStreams(): the rows, in the stable order of GetMany
    checkpoints,  \* persistence.Checkpoints(): id -> sequence ID, or NoCheckpoint
    streams,      \* esm.streams: id -> LiveStream object, or NoStream
    mux,          \* esm.mux: the caller holding it, or 0
    heap,         \* the LiveStream objects: object -> [id, status, seq, state, pos],
                  \* and the history flag old: the stream's tasks run from a
                  \* position they took before a reset deleted the checkpoint
    boot,         \* NewEventStreamManager/initialize: [pc, skip, page, i, err]
    ids,          \* the stream IDs the callers and Runtime.NewID use
    http,         \* the HTTP server in front of the manager, and its clients
    left,         \* how many more operations the callers will start
    highest,      \* history: id -> the highest checkpoint ever persisted for it
    pc,           \* caller -> position in its operation
    call          \* caller -> the operation's arguments, locals and result

vars == <<table, checkpoints, streams, mux, heap, boot, ids, http, left, highest, pc, call>>

Callers == DOMAIN pc
Objs == DOMAIN heap

\* ------------------------------------------------------- persistence model
Min(a, b) == IF a < b THEN a ELSE b
Max(a, b) == IF a > b THEN a ELSE b

\* The highest checkpoint ever persisted for stream id, or NoCheckpoint.
Highest(id) == IF id \in DOMAIN highest THEN highest[id] ELSE NoCheckpoint

RowIDs(t) == {t[k].id : k \in 1..Len(t)}

RowIndex(t, id) == CHOOSE k \in 1..Len(t) : t[k].id = id

\* GetByID: the row, or a row with NoID when there is none.
GetByID(t, id) ==
    IF id \in RowIDs(t) THEN t[RowIndex(t, id)]
    ELSE [id |-> NoID, status |-> StatusNil, seq |-> 0]

\* GetMany(filter.Skip(skip).Limit(limit)): the rows skip+1 .. skip+limit of
\* the table as it is now.
GetMany(t, skip, limit) ==
    IF skip >= Len(t) THEN <<>> ELSE SubSeq(t, skip + 1, Min(Len(t), skip + limit))

\* Delete(id): the row is removed, the rows after it move up.
DeleteRow(t, id) ==
    IF id \in RowIDs(t)
    THEN LET k == RowIndex(t, id)
         IN  SubSeq(t, 1, k - 1) \o SubSeq(t, k + 1, Len(t))
    ELSE t

\* Upsert(spec): replaces the row with the spec's ID, or appends a new row.
UpsertRow(t, row) ==
    IF row.id \in RowIDs(t)
    THEN [t EXCEPT ![RowIndex(t, row.id)] = row]
    ELSE Append(t, row)

\* UpdateSparse: only the fields given are written.
UpdateSeq(t, id, seq) ==
    IF id \in RowIDs(t) THEN [t EXCEPT ![RowIndex(t, id)].seq = seq] ELSE t

UpdateStatus(t, id, status) ==
    IF id \in RowIDs(t) THEN [t EXCEPT ![RowIndex(t, id)].status = status] ELSE t

\* Checkpoints().DeleteMany(id = id): the stream's checkpoint row is removed.
DeleteCheckpoint(cp, id) == [k \in DOMAIN cp \ {id} |-> cp[k]]

\* ----------------------------------------------------- LiveStream objects
\* Lifecycle states of a LiveStream (design document 4.4).  Created and
\* Stopped are the one state "stopped": the stream has no tasks, and start is
\* allowed from both.
Active == {"starting", "running"}
HasTasks == {"starting", "running", "draining"}

\* The object the next construction gets.
NewObj(h) == CHOOSE o \in 1..(Cardinality(DOMAIN h) + 1) : o \notin DOMAIN h

\* initEventStream: a LiveStream holding the spec, without tasks.
initEventStream(row) ==
    [id |-> row.id, status |-> row.status, seq |-> row.seq,
     state |-> "stopped", pos |-> 0, old |-> FALSE]

Alloc(h, row) == (NewObj(h) :> initEventStream(row)) @@ h

\* Objects nothing refers to and that run no task are reclaimed.
Referenced(s, cl) ==
    {s[id] : id \in DOMAIN s} \cup {cl[c].es : c \in DOMAIN cl}
        \cup {cl[c].existing : c \in DOMAIN cl}

Collect(h, s, cl) ==
    LET keep == {o \in DOMAIN h : o \in Referenced(s, cl) \/ h[o].state \in HasTasks}
    IN  [o \in keep |-> h[o]]

\* ---------------------------------------------------------------- startup
\* A persisted table the manager may be started on: rows 1..n in the order
\* GetMany returns them, the rows of del deleted, the others started.
StartupTable(n, del) ==
    [k \in 1..n |->
        [id |-> k,
         status |-> IF k \in del THEN EventStreamStatusDeleted
                    ELSE IF k % 2 = 0 THEN EventStreamStatusStopped
                    ELSE EventStreamStatusStarted,
         seq |-> 0]]

\* The subsets of S with at most k elements.
RECURSIVE SubsetsUpTo(_, _)
SubsetsUpTo(S, k) ==
    IF k = 0 THEN {{}}
    ELSE LET prev == SubsetsUpTo(S, k - 1)
         IN  prev \cup {p \cup {x} : p \in prev, x \in S}

BootStart == [pc |-> "getmany", skip |-> 0, page |-> <<>>, i |-> 0, err |-> ErrNone]
BootDone == [pc |-> "done", skip |-> 0, page |-> <<>>, i |-> 0, err |-> ErrNone]

addStreamMap(s, id, o) == (id :> o) @@ s

\* initialize, line 138: one page is read; an empty page ends the loop.
InitGetMany ==
    /\ boot.pc = "getmany"
    /\ \/ LET page == GetMany(table, boot.skip, pageSize)
          IN  boot' = IF Len(page) = 0
                      THEN [boot EXCEPT !.pc = "done", !.page = <<>>, !.i = 0]
                      ELSE [boot EXCEPT !.pc = "row", !.page = page, !.i = 1]
       \/ boot' = [boot EXCEPT !.pc = "failed", !.err = ErrStorage]
    /\ UNCHANGED <<table, checkpoints, streams, mux, heap, ids, http, left, highest, pc, call>>

\* Where the loop goes after row i of the page: the next row, or the next page.
BootAdvance(b) ==
    IF b.i < Len(b.page)
    THEN [b EXCEPT !.i = b.i + 1]
    ELSE [b EXCEPT !.pc = "getmany", !.skip = b.skip + pageSize, !.page = <<>>, !.i = 0]

\* Mutant of InitPurge: the deleted spec is skipped, not removed.
InitPurgeSkipsDelete ==
    /\ boot.pc = "row"
    /\ boot.page[boot.i].status = EventStreamStatusDeleted
    /\ boot' = BootAdvance(boot)
    /\ UNCHANGED <<table, checkpoints, streams, mux, heap, ids, http, left, highest, pc, call>>

\* initialize, lines 146-149: a deleted spec is purged from persistence.
InitPurge ==
    /\ boot.pc = "row"
    /\ boot.page[boot.i].status = EventStreamStatusDeleted
    /\ \/ /\ table' = DeleteRow(table, boot.page[boot.i].id)
          /\ boot' = BootAdvance(boot)
       \/ /\ boot' = [boot EXCEPT !.pc = "failed", !.err = ErrStorage]
          /\ UNCHANGED table
    /\ UNCHANGED <<checkpoints, streams, mux, heap, ids, http, left, highest, pc, call>>

\* initialize, lines 150-156: any other spec becomes a registered LiveStream.
InitLoad ==
    /\ boot.pc = "row"
    /\ boot.page[boot.i].status # EventStreamStatusDeleted
    /\ \/ /\ heap' = Alloc(heap, boot.page[boot.i])
          /\ streams' = addStreamMap(streams, boot.page[boot.i].id, NewObj(heap))
          /\ boot' = BootAdvance(boot)
       \/ /\ boot' = [boot EXCEPT !.pc = "failed", !.err = ErrValidation]
          /\ UNCHANGED <<heap, streams>>
    /\ UNCHANGED <<table, checkpoints, mux, ids, http, left, highest, pc, call>>

InitStartup ==
    /\ \E n \in 0..MaxRows :
         \E del \in SubsetsUpTo(1..n, MaxDeleted) :
            table = StartupTable(n, del)
    /\ checkpoints = [id \in {} |-> NoCheckpoint]
    /\ streams = [id \in {} |-> NoStream]
    /\ mux = 0
    /\ heap = [o \in {} |-> 0]
    /\ boot = BootStart
    /\ ids = {}
    /\ http = NoServer
    /\ left = 0
    /\ highest = [id \in {} |-> NoCheckpoint]
    /\ pc = [c \in {} |-> "idle"]
    /\ call = [c \in {} |-> 0]

NextStartup == InitGetMany \/ InitPurge \/ InitLoad

SpecStartup == InitStartup /\ [][NextStartup]_vars

\* ------------------------------------------------------- claims on startup
\* C1 (as claimed): when initialize returns without error every persisted
\* spec that is not deleted has a LiveStream registered under its ID, and no
\* deleted spec remains in persistence.
C1_StartupComplete ==
    boot.pc = "done" =>
        \A k \in 1..Len(table) :
            /\ table[k].status # EventStreamStatusDeleted
            /\ table[k].id \in DOMAIN streams

\* C2 (as claimed): every deleted spec encountered at startup is removed
\* before any LiveStream is created: no row is purged once a LiveStream exists.
C2_PurgeBeforeAnyStream ==
    [][Len(table') < Len(table) => DOMAIN heap = {}]_vars

\* C2 (amended): the rows of a page are handled in order; while the loop is at
\* row i every deleted row before i has been removed from persistence, every
\* LiveStream built from the page is for a row before i, and no LiveStream is
\* ever built for a deleted spec.
C2_PurgeBeforeLaterStreams ==
    /\ \A o \in Objs : heap[o].status # EventStreamStatusDeleted
    /\ boot.pc = "row" =>
         \A k \in 1..Len(boot.page) :
            /\ (k < boot.i /\ boot.page[k].status = EventStreamStatusDeleted)
                  => boot.page[k].id \notin RowIDs(table)
            /\ boot.page[k].id \in DOMAIN streams => k < boot.i

\* C2 witness: a deleted row of the page has been removed and a LiveStream has
\* been built for a row after it.
C2_Witness ==
    /\ boot.pc = "row"
    /\ \E k, j \in 1..Len(boot.page) :
         /\ k < j
         /\ boot.page[k].status = EventStreamStatusDeleted
         /\ boot.page[k].id \notin RowIDs(table)
         /\ boot.page[j].id \in DOMAIN streams

\* ------------------------------------------------------- LiveStream engine
\* suspend, first half (requestStop): an active stream is told to stop and
\* its context is cancelled; it is Draining until both tasks have exited.
requestStop(h, o) ==
    IF h[o].state \in Active
    THEN [h EXCEPT ![o].state = "draining", ![o].pos = 0, ![o].old = FALSE]
    ELSE h

\* ensureActive: a stream without tasks gets its producer and dispatcher.
ensureActive(h, o) ==
    IF h[o].state = "stopped"
    THEN [h EXCEPT ![o].state = "starting"]
    ELSE h

\* The producer's call of Runtime.Run: from the persisted checkpoint, or from
\* the spec's initial sequence ID when there is none.
RunFrom(cp, row) ==
    IF row.id \in DOMAIN cp /\ cp[row.id] # NoCheckpoint THEN cp[row.id] ELSE row.seq

ProducerRun(o) ==
    /\ heap[o].state = "starting"
    /\ heap' = [heap EXCEPT ![o].state = "running",
                            ![o].pos = RunFrom(checkpoints, heap[o])]
    /\ UNCHANGED <<table, checkpoints, streams, mux, boot, ids, http, left, highest, pc, call>>

\* The dispatcher delivers the next batch and persists its last sequence ID
\* as the stream's checkpoint.
Deliver(o) ==
    /\ heap[o].state = "running"
    /\ heap[o].pos < MaxSeq
    /\ heap' = [heap EXCEPT ![o].pos = heap[o].pos + 1]
    /\ checkpoints' = (heap[o].id :> (heap[o].pos + 1)) @@ checkpoints
    /\ highest' = (heap[o].id :> Max(heap[o].pos + 1, Highest(heap[o].id))) @@ highest
    /\ UNCHANGED <<table, streams, mux, boot, ids, http, left, pc, call>>

\* Both tasks of a draining stream have exited.
TaskExit(o) ==
    /\ heap[o].state = "draining"
    /\ heap' = Collect([heap EXCEPT ![o].state = "stopped"], streams, call)
    /\ UNCHANGED <<table, checkpoints, streams, mux, boot, ids, http, left, highest, pc, call>>

\* ----------------------------------------------------------------- callers
IdleCall ==
    [op |-> "none", id |-> NoID, status |-> StatusNil, seq |-> 0, valid |-> TRUE,
     existing |-> NoStream, es |-> NoStream, err |-> ErrNone, isNew |-> FALSE, calls |-> <<>>,
     visited |-> {}, failed |-> {}, keys |-> {}, again |-> FALSE,
     snap |-> <<>>, rows |-> <<>>, out |-> <<>>]

\* The operation returns err.  Its locals are gone; the caller keeps the
\* operation's name, stream ID and error, the status it upserted, the sequence
\* ID of a successful call, what Close logged, and the results of a read.
Returned(rec, err) ==
    [IdleCall EXCEPT !.op = rec.op, !.id = rec.id, !.err = err,
                     !.status = IF rec.op = "Upsert" THEN rec.status ELSE StatusNil,
                     !.seq = IF err = ErrNone THEN rec.seq ELSE 0,
                     !.again = rec.again /\ err = ErrNone,
                     !.visited = rec.visited, !.failed = rec.failed,
                     !.out = IF err = ErrNone THEN rec.out ELSE <<>>]

Logged(rec, what) == [rec EXCEPT !.calls = Append(rec.calls, what)]

CanCall(c) == pc[c] \in {"idle", "done"} /\ boot.pc = "done" /\ left > 0

\* IDs in use: NewID never returns one of them.
UsedIDs ==
    RowIDs(table) \cup DOMAIN streams \cup DOMAIN checkpoints
        \cup {call[c].id : c \in {d \in Callers : pc[d] \notin {"idle", "done"}}}

\* Runtime.NewID: an ID no stream has.
NewID == CHOOSE id \in ids : id \notin UsedIDs

\* getStream, lines 122-124: the lock is taken and the entry read.
getStream(c) ==
    /\ pc[c] = "get"
    /\ mux = 0
    /\ mux' = c
    /\ LET found == IF call[c].id \in DOMAIN streams
                    THEN streams[call[c].id] ELSE NoStream
       IN  call' = [call EXCEPT ![c] =
                      Logged(IF call[c].op = "Upsert"
                             THEN [call[c] EXCEPT !.existing = found]
                             ELSE [call[c] EXCEPT !.es = found],
                             "getStream")]
    /\ pc' = [pc EXCEPT ![c] = "got"]
    /\ UNCHANGED <<table, checkpoints, streams, heap, boot, ids, http, left, highest>>

\* The operations that begin with getStream(id) and return not-found when it
\* returns nil.
LookupOps == {"Start", "Stop", "Reset", "Delete"}

\* Where an operation goes once getStream has returned a LiveStream.
AfterGet(op) ==
    CASE op = "Upsert" -> "u_check"
      [] op = "Delete" -> "d_delete"
      [] op = "Stop"   -> "s_stop"
      [] op = "Reset"  -> "r_suspend"
      [] op = "Start"  -> "t_start"
      [] op \in {"Get", "List"} -> "e_status"

\* Mutant of getStreamReturn: DeleteStream deletes the spec row before it
\* looks at what getStream returned.
getStreamReturnDeletesFirst(c) ==
    /\ pc[c] = "got"
    /\ mux = c
    /\ mux' = 0
    /\ table' = IF call[c].op = "Delete" THEN DeleteRow(table, call[c].id) ELSE table
    /\ IF call[c].es = NoStream /\ call[c].op \in LookupOps
       THEN /\ pc' = [pc EXCEPT ![c] = "done"]
            /\ call' = [call EXCEPT ![c] = Returned(call[c], Msg404NoResult)]
       ELSE /\ pc' = [pc EXCEPT ![c] = AfterGet(call[c].op)]
            /\ UNCHANGED call
    /\ UNCHANGED <<checkpoints, streams, heap, boot, ids, http, left, highest>>

\* getStream's deferred unlock, and the caller's nil check (lines 213, 229,
\* 237, 265): no entry is the not-found error.
getStreamReturn(c) ==
    /\ pc[c] = "got"
    /\ mux = c
    /\ mux' = 0
    /\ IF call[c].es = NoStream /\ call[c].op \in LookupOps
       THEN /\ pc' = [pc EXCEPT ![c] = "done"]
            /\ call' = [call EXCEPT ![c] = Returned(call[c], Msg404NoResult)]
       ELSE /\ pc' = [pc EXCEPT ![c] = AfterGet(call[c].op)]
            /\ UNCHANGED call
    /\ UNCHANGED <<table, checkpoints, streams, heap, boot, ids, http, left, highest>>

\* suspend, second half: the wait for the tasks to exit, which ends with the
\* stream stopped, or with an error when the caller's context ends first.
suspendWait(c, o, from, to) ==
    /\ pc[c] = from
    /\ \/ /\ heap[o].state # "draining"
          /\ pc' = [pc EXCEPT ![c] = to]
          /\ UNCHANGED <<call, heap>>
       \/ /\ heap[o].state = "draining"
          /\ pc' = [pc EXCEPT ![c] = "done"]
          /\ call' = [call EXCEPT ![c] = Returned(call[c], ErrSuspend)]
          /\ heap' = Collect(heap, streams, call')
    /\ UNCHANGED <<table, checkpoints, streams, mux, boot, ids, http, left, highest>>

\* --------------------------------------------------------- UpsertStream
UpsertStatuses ==
    {StatusNil, EventStreamStatusStarted, EventStreamStatusStopped,
     EventStreamStatusDeleted, EventStreamStatusUnknown}

\* What a caller sees of stream id between two calls: the registry keys, the
\* persisted row, and whether the registered LiveStream is active.
Observed(id) ==
    [keys |-> DOMAIN streams,
     row |-> GetByID(table, id),
     active |-> id \in DOMAIN streams /\ heap[streams[id]].state \in Active]

\* The caller's previous operation was a successful UpsertStream.
Upserted(c) ==
    pc[c] = "done" /\ call[c].op = "Upsert" /\ call[c].err = ErrNone

\* UpsertStream, lines 164-169: a spec without ID gets a new one, otherwise the
\* existing LiveStream is looked up.
\* The spec's status and validity are inputs, drawn where the code first
\* reads them (UpsertCheck).
UpsertBegin(c) ==
    /\ CanCall(c)
    /\ \/ \E id \in ids \cup {NoID} :
            LET rec == [IdleCall EXCEPT !.op = "Upsert"]
            IN  IF id = NoID
                THEN /\ ids \ UsedIDs # {}
                     /\ call' = [call EXCEPT ![c] = Logged([rec EXCEPT !.id = NewID], "NewID")]
                     /\ pc' = [pc EXCEPT ![c] = "u_check"]
                ELSE /\ call' = [call EXCEPT ![c] = [rec EXCEPT !.id = id]]
                     /\ pc' = [pc EXCEPT ![c] = "get"]
       \/ \* the caller's previous, successful UpsertStream is repeated with the
          \* same spec object, which carries the ID and status that call set
          /\ Upserted(c)
          /\ call' = [call EXCEPT ![c] =
                        [IdleCall EXCEPT !.op = "Upsert", !.id = call[c].id,
                                         !.status = call[c].status, !.seq = call[c].seq,
                                         !.again = TRUE,
                                         !.snap = <<Observed(call[c].id)>>]]
          /\ pc' = [pc EXCEPT ![c] = "get"]
    /\ left' = left - 1
    /\ UNCHANGED <<table, checkpoints, streams, mux, heap, boot, ids, http, highest>>

\* The status and validity of the spec the call was given.
UpsertInputs(c) ==
    IF call[c].again
    THEN {<<call[c].status, TRUE>>}
    ELSE UpsertStatuses \X BOOLEAN

\* Mutant of UpsertCheck: the status check lets every status through.
UpsertCheckAnyStatus(c) ==
    /\ pc[c] = "u_check"
    /\ \E in \in UpsertInputs(c) :
         LET rec == [call[c] EXCEPT !.status = in[1], !.valid = in[2]]
         IN  IF ~rec.valid
             THEN /\ pc' = [pc EXCEPT ![c] = "done"]
                  /\ call' = [call EXCEPT ![c] = Returned(Logged(rec, "validate"), ErrValidation)]
             ELSE /\ pc' = [pc EXCEPT ![c] = "u_persist"]
                  /\ call' = [call EXCEPT ![c] = Logged(rec, "validate")]
    /\ heap' = Collect(heap, streams, call')
    /\ UNCHANGED <<table, checkpoints, streams, mux, boot, ids, http, left, highest>>

\* UpsertStream, lines 171-184: the status defaults to started, any status but
\* started and stopped is refused, then the spec is validated.
UpsertCheck(c) ==
    /\ pc[c] = "u_check"
    /\ \E in \in UpsertInputs(c) :
         LET status == IF in[1] = StatusNil THEN EventStreamStatusStarted ELSE in[1]
             rec == [call[c] EXCEPT !.status = status, !.valid = in[2]]
         IN  IF status # EventStreamStatusStarted /\ status # EventStreamStatusStopped
             THEN /\ pc' = [pc EXCEPT ![c] = "done"]
                  /\ call' = [call EXCEPT ![c] = Returned(rec, MsgESStartedOrStopped)]
             ELSE IF ~rec.valid
             THEN /\ pc' = [pc EXCEPT ![c] = "done"]
                  /\ call' = [call EXCEPT ![c] = Returned(Logged(rec, "validate"), ErrValidation)]
             ELSE /\ pc' = [pc EXCEPT ![c] = "u_persist"]
                  /\ call' = [call EXCEPT ![c] = Logged(rec, "validate")]
    /\ heap' = Collect(heap, streams, call')
    /\ UNCHANGED <<table, checkpoints, streams, mux, boot, ids, http, left, highest>>

SpecRow(rec) == [id |-> rec.id, status |-> rec.status, seq |-> rec.seq]

\* Mutant of UpsertPersist: a failing persistence upsert has written the row.
UpsertPersistWritesOnError(c) ==
    /\ pc[c] = "u_persist"
    /\ \/ /\ table' = UpsertRow(table, SpecRow(call[c]))
          /\ call' = [call EXCEPT ![c] =
                        Logged([call[c] EXCEPT !.isNew = call[c].id \notin RowIDs(table)],
                               "Upsert")]
          /\ pc' = [pc EXCEPT ![c] =
                       IF call[c].existing # NoStream THEN "u_suspend" ELSE "u_init"]
          /\ UNCHANGED heap
       \/ /\ pc' = [pc EXCEPT ![c] = "done"]
          /\ call' = [call EXCEPT ![c] = Returned(Logged(call[c], "Upsert"), ErrStorage)]
          /\ heap' = Collect(heap, streams, call')
          /\ table' = UpsertRow(table, SpecRow(call[c]))
    /\ UNCHANGED <<checkpoints, streams, mux, boot, ids, http, left, highest>>

\* UpsertStream, lines 186-190: the spec is persisted; then reInit.
UpsertPersist(c) ==
    /\ pc[c] = "u_persist"
    /\ \/ /\ table' = UpsertRow(table, SpecRow(call[c]))
          /\ call' = [call EXCEPT ![c] =
                        Logged([call[c] EXCEPT !.isNew = call[c].id \notin RowIDs(table)],
                               "Upsert")]
          /\ pc' = [pc EXCEPT ![c] =
                       IF call[c].existing # NoStream THEN "u_suspend" ELSE "u_init"]
          /\ UNCHANGED heap
       \/ /\ pc' = [pc EXCEPT ![c] = "done"]
          /\ call' = [call EXCEPT ![c] = Returned(Logged(call[c], "Upsert"), ErrStorage)]
          /\ heap' = Collect(heap, streams, call')
          /\ UNCHANGED table
    /\ UNCHANGED <<checkpoints, streams, mux, boot, ids, http, left, highest>>

\* Mutant of UpsertSuspend: reInit goes on without stopping the old stream.
UpsertNoSuspend(c) ==
    /\ pc[c] = "u_suspend"
    /\ call' = [call EXCEPT ![c] = Logged(call[c], "suspend")]
    /\ pc' = [pc EXCEPT ![c] = "u_init"]
    /\ UNCHANGED <<table, checkpoints, streams, mux, heap, boot, ids, http, left, highest>>

\* reInit, lines 195-196: the pre-existing LiveStream is told to stop.
UpsertSuspend(c) ==
    /\ pc[c] = "u_suspend"
    /\ heap' = requestStop(heap, call[c].existing)
    /\ call' = [call EXCEPT ![c] = Logged(call[c], "suspend")]
    /\ pc' = [pc EXCEPT ![c] = "u_wait"]
    /\ UNCHANGED <<table, checkpoints, streams, mux, boot, ids, http, left, highest>>

\* reInit, lines 196-198: suspend returns, or fails and ends the operation.
UpsertSuspendWait(c) == suspendWait(c, call[c].existing, "u_wait", "u_init")

\* reInit, lines 200-203: the new LiveStream is built from the spec.
UpsertInit(c) ==
    /\ pc[c] = "u_init"
    /\ \/ /\ Cardinality(Objs) < MaxObjs
          /\ heap' = Alloc(heap, SpecRow(call[c]))
          /\ call' = [call EXCEPT ![c] = Logged([call[c] EXCEPT !.es = NewObj(heap)], "init")]
          /\ pc' = [pc EXCEPT ![c] = "u_add"]
       \/ /\ pc' = [pc EXCEPT ![c] = "done"]
          /\ call' = [call EXCEPT ![c] = Returned(Logged(call[c], "init"), ErrValidation)]
          /\ heap' = Collect(heap, streams, call')
    /\ UNCHANGED <<table, checkpoints, streams, mux, boot, ids, http, left, highest>>

\* addStream, lines 116-118, called at line 204: the registry entry is set.
UpsertAdd(c) ==
    /\ pc[c] = "u_add"
    /\ mux = 0
    /\ mux' = c
    /\ streams' = addStreamMap(streams, call[c].id, call[c].es)
    /\ call' = [call EXCEPT ![c] = Logged(call[c], "addStream")]
    /\ pc' = [pc EXCEPT ![c] = "u_added"]
    /\ UNCHANGED <<table, checkpoints, heap, boot, ids, http, left, highest>>

\* addStream's deferred unlock, and line 205: only a started spec is activated.
UpsertAdded(c) ==
    /\ pc[c] = "u_added"
    /\ mux = c
    /\ mux' = 0
    /\ IF heap[call[c].es].status = EventStreamStatusStarted
       THEN /\ pc' = [pc EXCEPT ![c] = "u_activate"]
            /\ UNCHANGED <<call, heap>>
       ELSE /\ pc' = [pc EXCEPT ![c] = "done"]
            /\ call' = [call EXCEPT ![c] = Returned(call[c], ErrNone)]
            /\ heap' = Collect(heap, streams, call')
    /\ UNCHANGED <<table, checkpoints, streams, boot, ids, http, left, highest>>

\* Mutant of UpsertActivate: the new LiveStream is left without tasks.
UpsertNoActivate(c) ==
    /\ pc[c] = "u_activate"
    /\ pc' = [pc EXCEPT ![c] = "done"]
    /\ call' = [call EXCEPT ![c] = Returned(call[c], ErrNone)]
    /\ heap' = Collect(heap, streams, call')
    /\ UNCHANGED <<table, checkpoints, streams, mux, boot, ids, http, left, highest>>

\* reInit, lines 206-208: the new LiveStream is activated.
UpsertActivate(c) ==
    /\ pc[c] = "u_activate"
    /\ pc' = [pc EXCEPT ![c] = "done"]
    /\ call' = [call EXCEPT ![c] = Returned(Logged(call[c], "ensureActive"), ErrNone)]
    /\ heap' = Collect(ensureActive(heap, call[c].es), streams, call')
    /\ UNCHANGED <<table, checkpoints, streams, mux, boot, ids, http, left, highest>>


\* ------------------------------------- Start, Stop, Delete, Reset: entry
\* StartStream, StopStream, DeleteStream: the call begins with getStream(id).
LookupBegin(c, op) ==
    /\ CanCall(c)
    /\ \E id \in ids :
         call' = [call EXCEPT ![c] = [IdleCall EXCEPT !.op = op, !.id = id]]
    /\ pc' = [pc EXCEPT ![c] = "get"]
    /\ left' = left - 1
    /\ UNCHANGED <<table, checkpoints, streams, mux, heap, boot, ids, http, highest>>

\* ---------------------------------------------------------- StartStream
\* StartStream, line 264.
StartBegin(c) == LookupBegin(c, "Start")

\* eventStream.start: from Created or Stopped the status started is persisted
\* and the tasks are spawned; from any other state the call is a conflict.
esStart(c) ==
    IF heap[call[c].es].state = "stopped"
    THEN \/ /\ table' = UpdateStatus(table, call[c].id, EventStreamStatusStarted)
            /\ call' = [call EXCEPT ![c] = Returned(Logged(call[c], "start"), ErrNone)]
            /\ heap' = Collect(
                 ensureActive([heap EXCEPT ![call[c].es].status = EventStreamStatusStarted],
                              call[c].es),
                 streams, call')
         \/ /\ call' = [call EXCEPT ![c] = Returned(Logged(call[c], "start"), ErrStorage)]
            /\ heap' = Collect(heap, streams, call')
            /\ UNCHANGED table
    ELSE /\ call' = [call EXCEPT ![c] = Returned(Logged(call[c], "start"), ErrConflict)]
         /\ heap' = Collect(heap, streams, call')
         /\ UNCHANGED table

\* StartStream, line 268.
StartStart(c) ==
    /\ pc[c] = "t_start"
    /\ esStart(c)
    /\ pc' = [pc EXCEPT ![c] = "done"]
    /\ UNCHANGED <<checkpoints, streams, mux, boot, ids, http, left, highest>>


\* ----------------------------------------------------------- StopStream
\* StopStream, line 228.
StopBegin(c) == LookupBegin(c, "Stop")

\* StopStream, line 232, eventStream.stop: an active stream is told to stop;
\* from any other state the call is a conflict.
StopStop(c) ==
    /\ pc[c] = "s_stop"
    /\ IF heap[call[c].es].state \in Active
       THEN /\ heap' = requestStop(heap, call[c].es)
            /\ call' = [call EXCEPT ![c] = Logged(call[c], "stop")]
            /\ pc' = [pc EXCEPT ![c] = "s_wait"]
       ELSE /\ call' = [call EXCEPT ![c] = Returned(Logged(call[c], "stop"), ErrConflict)]
            /\ heap' = Collect(heap, streams, call')
            /\ pc' = [pc EXCEPT ![c] = "done"]
    /\ UNCHANGED <<table, checkpoints, streams, mux, boot, ids, http, left, highest>>

\* eventStream.stop, after the tasks have exited: the status stopped is
\* persisted; or the wait, or the update, fails.
StopWait(c) ==
    /\ pc[c] = "s_wait"
    /\ \/ /\ heap[call[c].es].state # "draining"
          /\ \/ /\ table' = UpdateStatus(table, call[c].id, EventStreamStatusStopped)
                /\ call' = [call EXCEPT ![c] = Returned(call[c], ErrNone)]
                /\ heap' = Collect(
                     [heap EXCEPT ![call[c].es].status = EventStreamStatusStopped],
                     streams, call')
             \/ /\ call' = [call EXCEPT ![c] = Returned(call[c], ErrStorage)]
                /\ heap' = Collect(heap, streams, call')
                /\ UNCHANGED table
       \/ /\ heap[call[c].es].state = "draining"
          /\ call' = [call EXCEPT ![c] = Returned(call[c], ErrSuspend)]
          /\ heap' = Collect(heap, streams, call')
          /\ UNCHANGED table
    /\ pc' = [pc EXCEPT ![c] = "done"]
    /\ UNCHANGED <<checkpoints, streams, mux, boot, ids, http, left, highest>>


\* --------------------------------------------------------- DeleteStream
\* DeleteStream, line 212.
DeleteBegin(c) == LookupBegin(c, "Delete")

\* DeleteStream, line 216, eventStream.delete: the stream is told to stop.
DeleteRequest(c) ==
    /\ pc[c] = "d_delete"
    /\ heap' = requestStop(heap, call[c].es)
    /\ call' = [call EXCEPT ![c] = Logged(call[c], "delete")]
    /\ pc' = [pc EXCEPT ![c] = "d_wait"]
    /\ UNCHANGED <<table, checkpoints, streams, mux, boot, ids, http, left, highest>>

\* eventStream.delete, after the tasks have exited: the status deleted is
\* persisted, the stream's checkpoint is removed (design document 3: a
\* Checkpoint is destroyed on stream delete) and the LiveStream is Deleted; or
\* the wait, or the update, fails.
DeleteWait(c) ==
    /\ pc[c] = "d_wait"
    /\ \/ /\ heap[call[c].es].state # "draining"
          /\ \/ /\ table' = UpdateStatus(table, call[c].id, EventStreamStatusDeleted)
                /\ checkpoints' = DeleteCheckpoint(checkpoints, call[c].id)
                /\ heap' = [heap EXCEPT ![call[c].es].status = EventStreamStatusDeleted,
                                        ![call[c].es].state = "deleted"]
                /\ pc' = [pc EXCEPT ![c] = "d_persist"]
                /\ UNCHANGED call
             \/ /\ call' = [call EXCEPT ![c] = Returned(call[c], ErrStorage)]
                /\ heap' = Collect(heap, streams, call')
                /\ pc' = [pc EXCEPT ![c] = "done"]
                /\ UNCHANGED <<table, checkpoints>>
       \/ /\ heap[call[c].es].state = "draining"
          /\ call' = [call EXCEPT ![c] = Returned(call[c], ErrSuspend)]
          /\ heap' = Collect(heap, streams, call')
          /\ pc' = [pc EXCEPT ![c] = "done"]
          /\ UNCHANGED <<table, checkpoints>>
    /\ UNCHANGED <<streams, mux, boot, ids, http, left, highest>>

\* Mutant of DeletePersist: the registry entry is dropped although the
\* persistence delete failed.
DeletePersistRemovesOnError(c) ==
    /\ pc[c] = "d_persist"
    /\ \/ /\ table' = DeleteRow(table, call[c].id)
          /\ call' = [call EXCEPT ![c] = Logged(call[c], "Delete")]
          /\ pc' = [pc EXCEPT ![c] = "d_remove"]
          /\ UNCHANGED <<heap, streams>>
       \/ /\ call' = [call EXCEPT ![c] = Returned(Logged(call[c], "Delete"), ErrStorage)]
          /\ streams' = [k \in DOMAIN streams \ {call[c].id} |-> streams[k]]
          /\ heap' = Collect(heap, streams', call')
          /\ pc' = [pc EXCEPT ![c] = "done"]
          /\ UNCHANGED table
    /\ UNCHANGED <<checkpoints, mux, boot, ids, http, left, highest>>

\* DeleteStream, lines 220-222: the spec row is deleted.
DeletePersist(c) ==
    /\ pc[c] = "d_persist"
    /\ \/ /\ table' = DeleteRow(table, call[c].id)
          /\ call' = [call EXCEPT ![c] = Logged(call[c], "Delete")]
          /\ pc' = [pc EXCEPT ![c] = "d_remove"]
          /\ UNCHANGED heap
       \/ /\ call' = [call EXCEPT ![c] = Returned(Logged(call[c], "Delete"), ErrStorage)]
          /\ heap' = Collect(heap, streams, call')
          /\ pc' = [pc EXCEPT ![c] = "done"]
          /\ UNCHANGED table
    /\ UNCHANGED <<checkpoints, streams, mux, boot, ids, http, left, highest>>

removeStreamMap(s, id) == [k \in DOMAIN s \ {id} |-> s[k]]

\* Mutant of DeleteRemove: the registry entry is left in place.
DeleteRemoveKeepsEntry(c) ==
    /\ pc[c] = "d_remove"
    /\ mux = 0
    /\ mux' = c
    /\ call' = [call EXCEPT ![c] = Logged(call[c], "removeStream")]
    /\ pc' = [pc EXCEPT ![c] = "d_removed"]
    /\ UNCHANGED <<table, checkpoints, streams, heap, boot, ids, http, left, highest>>

\* removeStream, lines 128-130, called at line 223.
DeleteRemove(c) ==
    /\ pc[c] = "d_remove"
    /\ mux = 0
    /\ mux' = c
    /\ streams' = removeStreamMap(streams, call[c].id)
    /\ call' = [call EXCEPT ![c] = Logged(call[c], "removeStream")]
    /\ pc' = [pc EXCEPT ![c] = "d_removed"]
    /\ UNCHANGED <<table, checkpoints, heap, boot, ids, http, left, highest>>

\* removeStream's deferred unlock; DeleteStream returns nil.
DeleteRemoved(c) ==
    /\ pc[c] = "d_removed"
    /\ mux = c
    /\ mux' = 0
    /\ call' = [call EXCEPT ![c] = Returned(call[c], ErrNone)]
    /\ heap' = Collect(heap, streams, call')
    /\ pc' = [pc EXCEPT ![c] = "done"]
    /\ UNCHANGED <<table, checkpoints, streams, boot, ids, http, left, highest>>


\* ---------------------------------------------------------- ResetStream
\* ResetStream, line 236: getStream(id).  The sequence ID is an input, drawn
\* where the code first reads it (ResetUpdate).
ResetBegin(c) ==
    /\ CanCall(c)
    /\ \E id \in ids :
         call' = [call EXCEPT ![c] = [IdleCall EXCEPT !.op = "Reset", !.id = id]]
    /\ pc' = [pc EXCEPT ![c] = "get"]
    /\ left' = left - 1
    /\ UNCHANGED <<table, checkpoints, streams, mux, heap, boot, ids, http, highest>>

\* ResetStream, line 241: the stream is told to stop.
ResetSuspend(c) ==
    /\ pc[c] = "r_suspend"
    /\ heap' = requestStop(heap, call[c].es)
    /\ call' = [call EXCEPT ![c] = Logged(call[c], "suspend")]
    /\ pc' = [pc EXCEPT ![c] = "r_wait"]
    /\ UNCHANGED <<table, checkpoints, streams, mux, boot, ids, http, left, highest>>

\* ResetStream, lines 241-243: suspend returns, or fails and ends the operation.
ResetSuspendWait(c) == suspendWait(c, call[c].es, "r_wait", "r_delcp")

\* Mutant of ResetDeleteCheckpoint: the checkpoint is left in place.
ResetKeepsCheckpoint(c) ==
    /\ pc[c] = "r_delcp"
    /\ call' = [call EXCEPT ![c] = Logged(call[c], "DeleteMany")]
    /\ pc' = [pc EXCEPT ![c] = "r_update"]
    /\ UNCHANGED <<table, checkpoints, streams, mux, heap, boot, ids, http, left, highest>>

\* History: the LiveStreams of id that are running while the checkpoint of id
\* is deleted go on from the position they have, the deleted checkpoint's.
MarkOld(h, cp, id) ==
    [o \in DOMAIN h |->
        IF h[o].id = id /\ h[o].state = "running" /\ id \in DOMAIN cp
        THEN [h[o] EXCEPT !.old = TRUE] ELSE h[o]]

\* ResetStream, lines 245-247: the checkpoint is deleted.
ResetDeleteCheckpoint(c) ==
    /\ pc[c] = "r_delcp"
    /\ \/ /\ checkpoints' = DeleteCheckpoint(checkpoints, call[c].id)
          /\ call' = [call EXCEPT ![c] = Logged(call[c], "DeleteMany")]
          /\ pc' = [pc EXCEPT ![c] = "r_update"]
          /\ heap' = MarkOld(heap, checkpoints, call[c].id)
       \/ /\ call' = [call EXCEPT ![c] = Returned(Logged(call[c], "DeleteMany"), ErrStorage)]
          /\ heap' = Collect(heap, streams, call')
          /\ pc' = [pc EXCEPT ![c] = "done"]
          /\ UNCHANGED checkpoints
    /\ UNCHANGED <<table, streams, mux, boot, ids, http, left, highest>>

\* ResetStream, lines 249-255: the in-memory spec gets the sequence ID, then
\* the persisted spec is updated sparsely.
ResetUpdate(c) ==
    /\ pc[c] = "r_update"
    /\ \E seq \in SeqIDs :
         \/ /\ table' = UpdateSeq(table, call[c].id, seq)
            /\ heap' = [heap EXCEPT ![call[c].es].seq = seq]
            /\ call' = [call EXCEPT ![c] = Logged([call[c] EXCEPT !.seq = seq], "UpdateSparse")]
            /\ pc' = [pc EXCEPT ![c] = "r_start"]
         \/ /\ call' = [call EXCEPT ![c] = Returned(Logged(call[c], "UpdateSparse"), ErrStorage)]
            /\ heap' = Collect([heap EXCEPT ![call[c].es].seq = seq], streams, call')
            /\ pc' = [pc EXCEPT ![c] = "done"]
            /\ UNCHANGED table
    /\ UNCHANGED <<checkpoints, streams, mux, boot, ids, http, left, highest>>

\* Mutant of ResetStart: the stream is started whatever its status.
ResetStartAlways(c) ==
    /\ pc[c] = "r_start"
    /\ esStart(c)
    /\ pc' = [pc EXCEPT ![c] = "done"]
    /\ UNCHANGED <<checkpoints, streams, mux, boot, ids, http, left, highest>>

\* ResetStream, lines 257-260: a stream whose spec is started is started again.
ResetStart(c) ==
    /\ pc[c] = "r_start"
    /\ IF heap[call[c].es].status = EventStreamStatusStarted
       THEN esStart(c)
       ELSE /\ call' = [call EXCEPT ![c] = Returned(call[c], ErrNone)]
            /\ heap' = Collect(heap, streams, call')
            /\ UNCHANGED table
    /\ pc' = [pc EXCEPT ![c] = "done"]
    /\ UNCHANGED <<checkpoints, streams, mux, boot, ids, http, left, highest>>


\* ----------------------------------------------------------------- Close
\* Close reads esm.streams without esm.mux: another caller is writing the map
\* (it is inside addStream or removeStream) while caller c reads it.
MapWriter(c) ==
    \E d \in Callers \ {c} : mux = d /\ pc[d] \in {"u_added", "d_removed"}

\* The Go runtime detects the concurrent map iteration and map write and ends
\* the process: every caller and task is gone, persistence is as it was.
Fatal ==
    /\ pc' = [d \in Callers |-> "fatal"]
    /\ call' = [d \in Callers |-> IdleCall]
    /\ heap' = [o \in {} |-> 0]
    /\ streams' = [id \in {} |-> NoStream]
    /\ mux' = 0
    /\ UNCHANGED <<table, checkpoints, boot, ids, http, highest>>

\* Close, line 306: the iteration over esm.streams begins.  The map is read
\* without the lock: a read that overlaps a write is a data race, which the
\* runtime may detect (Fatal) or not.
CloseBegin(c) ==
    /\ CanCall(c)
    /\ left' = left - 1
    /\ \/ /\ call' = [call EXCEPT ![c] =
                        [IdleCall EXCEPT !.op = "Close", !.keys = DOMAIN streams]]
          /\ pc' = [pc EXCEPT ![c] = "c_next"]
          /\ UNCHANGED <<table, checkpoints, streams, mux, heap, boot, ids, http, highest>>
       \/ /\ MapWriter(c)
          /\ Fatal

\* The range over the map is over: every entry that was there when it began
\* and still is has been produced (an entry added meanwhile may be skipped).
RangeOver(c) == (call[c].keys \cap DOMAIN streams) \subseteq call[c].visited

\* Close, lines 306-307: the next entry of the map is produced and its
\* LiveStream told to stop; or the range is over and Close returns.
CloseNext(c) ==
    /\ pc[c] = "c_next"
    /\ \/ /\ \E id \in DOMAIN streams \ call[c].visited :
               /\ call' = [call EXCEPT ![c] =
                             Logged([call[c] EXCEPT !.id = id, !.es = streams[id]], "suspend")]
               /\ heap' = requestStop(heap, streams[id])
          /\ pc' = [pc EXCEPT ![c] = "c_wait"]
          /\ UNCHANGED <<table, checkpoints, streams, mux, boot, ids, http, left, highest>>
       \/ /\ RangeOver(c)
          /\ call' = [call EXCEPT ![c] = Returned(call[c], ErrNone)]
          /\ heap' = Collect(heap, streams, call')
          /\ pc' = [pc EXCEPT ![c] = "done"]
          /\ UNCHANGED <<table, checkpoints, streams, mux, boot, ids, http, left, highest>>
       \/ /\ MapWriter(c)
          /\ Fatal
          /\ UNCHANGED left

\* Mutant of CloseWait: Close gives up at the first suspend that fails.
CloseStopsAtFailure(c) ==
    /\ pc[c] = "c_wait"
    /\ \/ /\ heap[call[c].es].state # "draining"
          /\ call' = [call EXCEPT ![c].visited = @ \cup {call[c].id}, ![c].es = NoStream]
          /\ pc' = [pc EXCEPT ![c] = "c_next"]
       \/ /\ heap[call[c].es].state = "draining"
          /\ call' = [call EXCEPT ![c] =
                        Returned([call[c] EXCEPT !.visited = @ \cup {call[c].id},
                                                 !.failed = @ \cup {call[c].id}], ErrNone)]
          /\ pc' = [pc EXCEPT ![c] = "done"]
    /\ heap' = Collect(heap, streams, call')
    /\ UNCHANGED <<table, checkpoints, streams, mux, boot, ids, http, left, highest>>

\* Close, lines 307-309: suspend returns; a failure is logged and the loop
\* goes on.
CloseWait(c) ==
    /\ pc[c] = "c_wait"
    /\ \/ /\ heap[call[c].es].state # "draining"
          /\ call' = [call EXCEPT ![c].visited = @ \cup {call[c].id}, ![c].es = NoStream]
       \/ /\ heap[call[c].es].state = "draining"
          /\ call' = [call EXCEPT ![c].visited = @ \cup {call[c].id},
                                  ![c].failed = @ \cup {call[c].id}, ![c].es = NoStream]
    /\ heap' = Collect(heap, streams, call')
    /\ pc' = [pc EXCEPT ![c] = "c_next"]
    /\ UNCHANGED <<table, checkpoints, streams, mux, boot, ids, http, left, highest>>


\* ------------------------------------------- GetStreamByID, ListStreams
\* eventStream.Status: the LiveStream's spec with its live status.
esStatus(h, o) == [id |-> h[o].id, status |-> h[o].status]

\* The rows a read has yet to enrich start at call[c].rows[Len(out) + 1].
\* GetStreamByID, lines 298-301: GetByID returns the spec, or an error (also
\* when there is no such spec).
GetStreamByIDBegin(c) ==
    /\ CanCall(c)
    /\ \E id \in ids :
         LET rec == Logged([IdleCall EXCEPT !.op = "Get", !.id = id], "GetByID")
         IN  \/ /\ id \in RowIDs(table)
                /\ call' = [call EXCEPT ![c] = [rec EXCEPT !.rows = <<GetByID(table, id)>>]]
                /\ pc' = [pc EXCEPT ![c] = "get"]
             \/ /\ call' = [call EXCEPT ![c] =
                      Returned(rec, IF id \in RowIDs(table) THEN ErrStorage
                                    ELSE Msg404NoResult)]
                /\ pc' = [pc EXCEPT ![c] = "done"]
    /\ left' = left - 1
    /\ UNCHANGED <<table, checkpoints, streams, mux, heap, boot, ids, http, highest>>

\* ListStreams, lines 285-291: GetMany returns the specs, or an error.
ListStreamsBegin(c) ==
    /\ CanCall(c)
    /\ LET rec == Logged([IdleCall EXCEPT !.op = "List"], "GetMany")
           rows == GetMany(table, 0, Len(table))
       IN  \/ /\ rows # <<>>
              /\ call' = [call EXCEPT ![c] = [rec EXCEPT !.rows = rows, !.id = rows[1].id]]
              /\ pc' = [pc EXCEPT ![c] = "get"]
           \/ /\ rows = <<>>
              /\ call' = [call EXCEPT ![c] = Returned(rec, ErrNone)]
              /\ pc' = [pc EXCEPT ![c] = "done"]
           \/ /\ call' = [call EXCEPT ![c] = Returned(rec, ErrStorage)]
              /\ pc' = [pc EXCEPT ![c] = "done"]
    /\ left' = left - 1
    /\ UNCHANGED <<table, checkpoints, streams, mux, heap, boot, ids, http, highest>>

\* Mutant of enrichGetStream: a spec without LiveStream fails the read.
enrichGetStreamFailsOnNil(c) ==
    /\ pc[c] = "e_status"
    /\ call[c].es = NoStream
    /\ call' = [call EXCEPT ![c] = Returned(call[c], Msg404NoResult)]
    /\ pc' = [pc EXCEPT ![c] = "done"]
    /\ heap' = Collect(heap, streams, call')
    /\ UNCHANGED <<table, checkpoints, streams, mux, boot, ids, http, left, highest>>

\* enrichGetStream, lines 273-281, after getStream: the result is the
\* LiveStream's status, or the spec with status unknown; then the next spec of
\* ListStreams (line 291), or the return (lines 294, 302).
enrichGetStream(c) ==
    /\ pc[c] = "e_status"
    /\ LET k == Len(call[c].out) + 1
           res == IF call[c].es # NoStream THEN esStatus(heap, call[c].es)
                  ELSE [id |-> call[c].rows[k].id, status |-> EventStreamStatusUnknown]
           rec == Logged([call[c] EXCEPT !.out = Append(@, res), !.es = NoStream],
                         IF call[c].es # NoStream THEN "Status" ELSE "unknown")
       IN  IF k < Len(call[c].rows)
           THEN /\ call' = [call EXCEPT ![c] = [rec EXCEPT !.id = call[c].rows[k + 1].id]]
                /\ pc' = [pc EXCEPT ![c] = "get"]
           ELSE /\ call' = [call EXCEPT ![c] = Returned(rec, ErrNone)]
                /\ pc' = [pc EXCEPT ![c] = "done"]
    /\ heap' = Collect(heap, streams, call')
    /\ UNCHANGED <<table, checkpoints, streams, mux, boot, ids, http, left, highest>>

\* ---------------------------------------------------------- specification
\* The manager after construction on an empty spec table, with n callers.
InitManager(n, streamIDs, ops) ==
    /\ table = <<>>
    /\ checkpoints = [id \in {} |-> NoCheckpoint]
    /\ streams = [id \in {} |-> NoStream]
    /\ mux = 0
    /\ heap = [o \in {} |-> 0]
    /\ boot = BootDone
    /\ ids = streamIDs
    /\ left = ops
    /\ highest = [id \in {} |-> NoCheckpoint]
    /\ pc = [c \in 1..n |-> "idle"]
    /\ call = [c \in 1..n |-> IdleCall]

Next ==
    \/ \E c \in Callers : getStream(c)
    \/ \E c \in Callers : getStreamReturn(c)
    \/ \E c \in Callers : UpsertBegin(c)
    \/ \E c \in Callers : UpsertCheck(c)
    \/ \E c \in Callers : UpsertPersist(c)
    \/ \E c \in Callers : UpsertSuspend(c)
    \/ \E c \in Callers : UpsertSuspendWait(c)
    \/ \E c \in Callers : UpsertInit(c)
    \/ \E c \in Callers : UpsertAdd(c)
    \/ \E c \in Callers : UpsertAdded(c)
    \/ \E c \in Callers : UpsertActivate(c)
    \/ \E c \in Callers : StartBegin(c)
    \/ \E c \in Callers : StartStart(c)
    \/ \E c \in Callers : StopBegin(c)
    \/ \E c \in Callers : StopStop(c)
    \/ \E c \in Callers : StopWait(c)
    \/ \E c \in Callers : DeleteBegin(c)
    \/ \E c \in Callers : DeleteRequest(c)
    \/ \E c \in Callers : DeleteWait(c)
    \/ \E c \in Callers : DeletePersist(c)
    \/ \E c \in Callers : DeleteRemove(c)
    \/ \E c \in Callers : DeleteRemoved(c)
    \/ \E c \in Callers : ResetBegin(c)
    \/ \E c \in Callers : ResetSuspend(c)
    \/ \E c \in Callers : ResetSuspendWait(c)
    \/ \E c \in Callers : ResetDeleteCheckpoint(c)
    \/ \E c \in Callers : ResetUpdate(c)
    \/ \E c \in Callers : ResetStart(c)
    \/ \E c \in Callers : CloseBegin(c)
    \/ \E c \in Callers : CloseNext(c)
    \/ \E c \in Callers : CloseWait(c)
    \/ \E o \in Objs : ProducerRun(o)
    \/ \E o \in Objs : Deliver(o)
    \/ \E o \in Objs : TaskExit(o)

\* Two callers run operations concurrently, on one stream.
Init == InitManager(2, {1}, MaxOps) /\ http = NoServer
Spec == Init /\ [][Next]_vars

\* One caller: the operations run one at a time.
InitSeq == InitManager(1, IDs, MaxOps) /\ http = NoServer
SpecSeq == InitSeq /\ [][Next]_vars

\* One caller reads the streams while the other upserts and deletes streams.
Reader == 1
Writer == 2

NextRead ==
    \/ \E c \in Callers : getStream(c)
    \/ \E c \in Callers : getStreamReturn(c)
    \/ UpsertBegin(Writer)
    \/ UpsertCheck(Writer)
    \/ UpsertPersist(Writer)
    \/ UpsertSuspend(Writer)
    \/ UpsertSuspendWait(Writer)
    \/ UpsertInit(Writer)
    \/ UpsertAdd(Writer)
    \/ UpsertAdded(Writer)
    \/ UpsertActivate(Writer)
    \/ DeleteBegin(Writer)
    \/ DeleteRequest(Writer)
    \/ DeleteWait(Writer)
    \/ DeletePersist(Writer)
    \/ DeleteRemove(Writer)
    \/ DeleteRemoved(Writer)
    \/ GetStreamByIDBegin(Reader)
    \/ ListStreamsBegin(Reader)
    \/ enrichGetStream(Reader)
    \/ \E o \in Objs : ProducerRun(o)
    \/ \E o \in Objs : Deliver(o)
    \/ \E o \in Objs : TaskExit(o)

InitRead == InitManager(2, IDs, MaxOps) /\ http = NoServer
SpecRead == InitRead /\ [][NextRead]_vars

\* ------------------------------------------------------------ HTTP server
\* The HTTP listener (package httpserver) as its tests drive it: NewHTTPServer
\* has returned, ServeHTTP runs in a goroutine of its own, and the test sends
\* requests, cancels the context and receives from errChan.
Credentials == {"none", "bad", "good"}

\* The response the route handler of the tests writes, and the refusal.
StatusOK == 200
StatusForbidden == 403
BodyHello == "world"
BodyUnauthorized == "FF00169: Unauthorized"

Requests == 1..MaxReqs

NoRequest == [st |-> "idle", creds |-> "none", reached |-> FALSE, code |-> 0, body |-> ""]

\* What the other variables are while the HTTP server is looked at.
ManagerIdle == InitManager(0, {}, 0)

\* NewHTTPServer has returned a server: with or without an auth plugin
\* (HTTPAuthType), with its listener open or closed by the test
\* (hs.l.Close()), and with a Shutdown that will succeed or fail.
InitHTTP ==
    /\ ManagerIdle
    /\ http \in [srv : {"created"}, auth : BOOLEAN, lclosed : BOOLEAN, sdErr : BOOLEAN,
                 ctx : {"live"}, errChan : {<<>>}, got : {<<>>},
                 reqs : {[r \in Requests |-> NoRequest]}]

ManagerVars == <<table, checkpoints, streams, mux, heap, boot, ids, left, highest, pc, call>>

\* go hs.ServeHTTP(ctx): the server serves on its listener; on a closed
\* listener Serve fails at once.
ServeHTTP ==
    /\ http.srv = "created"
    /\ http' = [http EXCEPT !.srv = IF http.lclosed THEN "failed" ELSE "serving"]
    /\ UNCHANGED ManagerVars

\* The test cancels the context it gave ServeHTTP.
cancel ==
    /\ http.srv # "none"
    /\ http.ctx = "live"
    /\ http' = [http EXCEPT !.ctx = "cancelled"]
    /\ UNCHANGED ManagerVars

\* The context is cancelled: the server is shut down within the shutdown
\* timeout, which succeeds or fails.
Shutdown ==
    /\ http.srv = "serving"
    /\ http.ctx = "cancelled"
    /\ http' = [http EXCEPT !.srv = IF http.sdErr THEN "shutdownFailed" ELSE "closed"]
    /\ UNCHANGED ManagerVars

\* What ServeHTTP sends on the error channel for the way serving ended.
Outcome(srv) == IF srv = "closed" THEN "nil" ELSE "error"

\* Mutant of Report: a failed shutdown is only logged.
ReportUnlessShutdownFailed ==
    /\ http.srv \in {"failed", "closed"}
    /\ http.errChan = <<>>
    /\ http' = [http EXCEPT !.errChan = <<Outcome(http.srv)>>, !.srv = "ended"]
    /\ UNCHANGED ManagerVars

\* Serving has ended: the error, or nil after a clean shutdown, is sent on
\* the error channel.
Report ==
    /\ http.srv \in {"failed", "shutdownFailed", "closed"}
    /\ http.errChan = <<>>
    /\ http' = [http EXCEPT !.errChan = <<Outcome(http.srv)>>, !.srv = "ended"]
    /\ UNCHANGED ManagerVars

\* The test receives from errChan.
Receive ==
    /\ http.srv # "none"
    /\ http.errChan # <<>>
    /\ http' = [http EXCEPT !.errChan = <<>>, !.got = Append(@, Head(http.errChan))]
    /\ UNCHANGED ManagerVars

\* The test's client sends GET /test, with or without basic auth.
SendRequest(r) ==
    /\ http.srv = "serving"
    /\ http.reqs[r].st = "idle"
    /\ \E cr \in Credentials :
         http' = [http EXCEPT !.reqs[r].st = "sent", !.reqs[r].creds = cr]
    /\ UNCHANGED ManagerVars

\* Mutant of Authorize: every request is passed to the router.
AuthorizeAll(r) ==
    /\ http.srv = "serving"
    /\ http.reqs[r].st = "sent"
    /\ http' = [http EXCEPT !.reqs[r].st = "routed"]
    /\ UNCHANGED ManagerVars

\* The auth plugin, when one is configured, refuses a request without valid
\* credentials with 403; any other request is passed to the router.
Authorize(r) ==
    /\ http.srv = "serving"
    /\ http.reqs[r].st = "sent"
    /\ IF http.auth /\ http.reqs[r].creds # "good"
       THEN http' = [http EXCEPT !.reqs[r].st = "answered",
                                 !.reqs[r].code = StatusForbidden,
                                 !.reqs[r].body = BodyUnauthorized]
       ELSE http' = [http EXCEPT !.reqs[r].st = "routed"]
    /\ UNCHANGED ManagerVars

\* The route handler of the tests: 200 and {"hello": "world"}.
Handle(r) ==
    /\ http.srv = "serving"
    /\ http.reqs[r].st = "routed"
    /\ http' = [http EXCEPT !.reqs[r].st = "answered", !.reqs[r].reached = TRUE,
                             !.reqs[r].code = StatusOK, !.reqs[r].body = BodyHello]
    /\ UNCHANGED ManagerVars

NextHTTP ==
    \/ ServeHTTP
    \/ cancel
    \/ Shutdown
    \/ Report
    \/ Receive
    \/ \E r \in Requests : SendRequest(r)
    \/ \E r \in Requests : Authorize(r)
    \/ \E r \in Requests : Handle(r)

SpecHTTP == InitHTTP /\ [][NextHTTP]_vars

\* ServeHTTP's goroutines run: the serve loop, the shutdown on cancellation
\* and the send on the error channel are not delayed forever.
SpecHTTPFair ==
    SpecHTTP /\ WF_vars(ServeHTTP) /\ WF_vars(Shutdown) /\ WF_vars(Report)

\* ------------------------------------------------ claims on the operations
\* Caller c's operation returns in this step.
Returns(c) == pc[c] \notin {"idle", "done"} /\ pc'[c] = "done"

\* The LiveStream registered for id in the next state.
Registered(id) == heap'[streams'[id]]

\* The LiveStreams of stream id that have running tasks.
Running(h, id) == {o \in DOMAIN h : h[o].id = id /\ h[o].state \in HasTasks}

\* C3: when ResetStream(id, seq) returns without error, with no other operation
\* in flight, id has no checkpoint, the persisted and the in-memory spec carry
\* initialSequenceID = seq, a started stream has been started again, and the
\* next Run of the stream's producer is given seq.
C3_ResetPostcondition ==
    [][\A c \in Callers :
        /\ (Returns(c) /\ call[c].op = "Reset" /\ call'[c].err = ErrNone) =>
              /\ call[c].id \notin DOMAIN checkpoints'
              /\ GetByID(table', call[c].id).seq = call[c].seq
              /\ Registered(call[c].id).seq = call[c].seq
              /\ Registered(call[c].id).status = EventStreamStatusStarted
                    => Registered(call[c].id).state = "starting"
        /\ (pc[c] = "done" /\ call[c].op = "Reset" /\ call[c].err = ErrNone) =>
              \A o \in Objs :
                 (heap[o].id = call[c].id /\ heap[o].state = "starting"
                    /\ o \in DOMAIN heap' /\ heap'[o].state = "running")
                  => heap'[o].pos = call[c].seq
      ]_vars

\* C3 witness: ResetStream(id, 1) has returned and the stream, upserted with
\* initial sequence ID 0, runs from 1 with no checkpoint.
C3_Witness ==
    \E c \in Callers :
        /\ pc[c] = "done" /\ call[c].op = "Reset" /\ call[c].err = ErrNone
        /\ call[c].seq = 1
        /\ call[c].id \in DOMAIN streams
        /\ call[c].id \notin DOMAIN checkpoints
        /\ Highest(call[c].id) # NoCheckpoint
        /\ heap[streams[call[c].id]].state = "running"
        /\ heap[streams[call[c].id]].pos = 1

C5_NoTasksAfterClose ==
    [][\A c \in Callers :
        (Returns(c) /\ call[c].op = "Close") =>
            \A o \in DOMAIN heap' : heap'[o].state \notin HasTasks
      ]_vars

\* C6 (as claimed): Close suspends the LiveStreams concurrently: while it
\* waits for one suspend it has invoked suspend on every registered LiveStream.
C6_SuspendsConcurrently ==
    \A c \in Callers :
        (pc[c] = "c_wait" /\ call[c].op = "Close") =>
            \A id \in DOMAIN streams : heap[streams[id]].state \notin Active

\* C6 (amended): Close suspends the registered LiveStreams one after the other;
\* a suspend that fails is logged and the loop goes on; with no other operation
\* running, when Close returns suspend has been invoked on every registered
\* LiveStream and has returned: the stream is stopped, or its suspend failed.
C6_CloseSuspendsEach ==
    [][\A c \in Callers :
        (Returns(c) /\ call[c].op = "Close") =>
            \A id \in DOMAIN streams' :
                /\ id \in call'[c].visited
                /\ Registered(id).state \notin Active
                /\ Registered(id).state = "draining" => id \in call'[c].failed
      ]_vars

\* C6 witness: Close has returned after suspending two streams, one of whose
\* suspends failed.
C6_Witness ==
    \E c \in Callers :
        /\ pc[c] = "done" /\ call[c].op = "Close"
        /\ Cardinality(call[c].visited) = 2
        /\ Cardinality(call[c].failed) = 1

\* The repeated UpsertStream of caller c returns without error.
RepeatReturns(c) ==
    Returns(c) /\ call[c].op = "Upsert" /\ call[c].again /\ call'[c].err = ErrNone

\* C7 (as claimed): a second UpsertStream with the same spec leaves the
\* persisted spec, the registry keys and the stream's active state as the first
\* call left them, with exactly one LiveStream of the ID having running tasks.
C7_UpsertIdempotent ==
    [][\A c \in Callers :
        RepeatReturns(c) =>
            /\ Observed(call[c].id)' = call[c].snap[1]
            /\ Cardinality(Running(heap', call[c].id)) = 1
      ]_vars

\* C7 (amended): ... with exactly one LiveStream of the ID having running tasks
\* when the spec's status is started, and none when it is stopped.
C7_UpsertIdempotentByStatus ==
    [][\A c \in Callers :
        RepeatReturns(c) =>
            /\ Observed(call[c].id)' = call[c].snap[1]
            /\ Cardinality(Running(heap', call[c].id)) =
                  IF call[c].status = EventStreamStatusStarted THEN 1 ELSE 0
      ]_vars

\* C7 witness: the repeated UpsertStream of a started spec has returned and
\* the stream delivers.
C7_Witness ==
    \E c \in Callers :
        /\ pc[c] = "done" /\ call[c].op = "Upsert" /\ call[c].again
        /\ call[c].status = EventStreamStatusStarted
        /\ heap[streams[call[c].id]].state = "running"

UpsertOrder(status) ==
    <<"getStream", "validate", "Upsert", "suspend", "init", "addStream">>
        \o (IF status = EventStreamStatusStarted THEN <<"ensureActive">> ELSE <<>>)

\* C9 (as claimed): a successful UpsertStream for an ID with a LiveStream
\* persists, suspends the old LiveStream, builds, registers, and activates the
\* new one iff the status is started, in this order; the new LiveStream is not
\* activated while the old one has running tasks; the registry mutex is not
\* held during the suspend.
C9_UpsertOrder ==
    [][\A c \in Callers :
        /\ (Returns(c) /\ call[c].op = "Upsert" /\ call'[c].err = ErrNone
              /\ call[c].existing # NoStream) =>
              LET log == IF pc[c] = "u_activate"
                         THEN Append(call[c].calls, "ensureActive") ELSE call[c].calls
              IN  log = UpsertOrder(call[c].status)
        /\ (pc[c] = "u_activate" /\ pc'[c] = "done"
              /\ call[c].existing # NoStream
              /\ heap'[call[c].es].state \in HasTasks) =>
              heap[call[c].existing].state \notin HasTasks
        /\ pc[c] \in {"u_suspend", "u_wait"} => mux # c
      ]_vars

\* C10: Start, Stop, Reset and DeleteStream of an ID without registry entry
\* return not-found after the lookup alone, and leave the persisted specs, the
\* checkpoints, the registry and every LiveStream as they are.
C10_NotFound ==
    [][\A c \in Callers :
        (pc[c] = "got" /\ pc'[c] # "got" /\ call[c].op \in LookupOps
              /\ call[c].es = NoStream) =>
              /\ pc'[c] = "done"
              /\ call'[c].err = Msg404NoResult
              /\ call[c].calls = <<"getStream">>
              /\ UNCHANGED <<table, checkpoints, streams, heap>>
      ]_vars

\* C10 witness: ResetStream of an ID whose spec a concurrent UpsertStream has
\* persisted but not yet registered has returned not-found.
C10_Witness ==
    \E c \in Callers :
        /\ pc[c] = "done" /\ call[c].op = "Reset" /\ call[c].err = Msg404NoResult
        /\ call[c].id \notin DOMAIN streams
        /\ call[c].id \in RowIDs(table)

ReadOps == {"Get", "List"}

\* C12: GetStreamByID and ListStreams give one result per spec persistence
\* returned, in the same order and with the spec's ID; a result carries the
\* status of the LiveStream getStream found for the ID, or the status unknown
\* when it found none, and the read still succeeds; a read fails only when the
\* persistence read fails, and then has no results.
C12_ReadsOverlayLiveStatus ==
    [][\A c \in Callers :
        /\ (pc[c] = "e_status" /\ pc'[c] # "e_status") =>
              LET k == Len(call[c].out) + 1
              IN  /\ call'[c].err = ErrNone
                  /\ Len(call'[c].out) = k
                  /\ SubSeq(call'[c].out, 1, k - 1) = call[c].out
                  /\ call'[c].out[k].id = call[c].rows[k].id
                  /\ call'[c].out[k].status =
                        IF call[c].es = NoStream THEN EventStreamStatusUnknown
                        ELSE heap[call[c].es].status
                  /\ pc'[c] = "done" <=> k = Len(call[c].rows)
        /\ (pc[c] \in {"idle", "done"} /\ pc'[c] = "done" /\ call'[c] # call[c]
              /\ call'[c].op \in ReadOps) =>
              /\ call'[c].out = <<>>
              /\ call'[c].err = ErrNone =>
                    (call'[c].op = "List" /\ table = <<>>)
        /\ (pc[c] \in {"idle", "done"} /\ pc'[c] = "get" /\ call'[c].op \in ReadOps) =>
              /\ call'[c].rows # <<>>
              /\ call'[c].rows = IF call'[c].op = "List" THEN table
                                 ELSE <<GetByID(table, call'[c].id)>>
              /\ call'[c].id = call'[c].rows[1].id
      ]_vars

\* C12 witness: ListStreams has returned two results, one with the status of
\* a registered LiveStream and one with status unknown for a spec that is
\* persisted but not registered.
C12_Witness ==
    \E c \in Callers :
        /\ pc[c] = "done" /\ call[c].op = "List" /\ call[c].err = ErrNone
        /\ Len(call[c].out) = 2
        /\ call[c].out[1].status = EventStreamStatusStarted
        /\ call[c].out[2].status = EventStreamStatusUnknown
        /\ call[c].out[1].id # call[c].out[2].id

\* Caller c reads, writes or iterates the registry map in this step.
MapAccess(c) ==
    \/ pc[c] = "get" /\ pc'[c] = "got"
    \/ pc[c] = "u_add" /\ pc'[c] = "u_added"
    \/ pc[c] = "d_remove" /\ pc'[c] = "d_removed"
    \/ pc[c] \in {"idle", "done"} /\ pc'[c] \in {"c_next", "fatal"}
    \/ pc[c] = "c_next" /\ pc'[c] # "c_next"

\* C13 (as claimed): a caller accesses the registry map only in a step that
\* takes the manager mutex, which no other caller holds; a caller that holds
\* the mutex is inside addStream, getStream or removeStream and releases it
\* in its next step, before any persistence call or LiveStream operation.
C13_MapAccessUnderMutex ==
    [][\A c \in Callers :
        /\ MapAccess(c) => (mux = 0 /\ mux' = c)
        /\ mux = c => pc[c] \in {"got", "u_added", "d_removed"}
        /\ (mux = c /\ pc'[c] # pc[c]) => mux' = 0
      ]_vars

\* C14: with an auth plugin configured, a request without valid credentials
\* never reaches the route handler and is answered 403 with the body
\* "FF00169: Unauthorized"; a request with valid credentials that is answered
\* has reached the handler and carries the handler's response, 200.
C14_Unauthorized ==
    (http.srv # "none" /\ http.auth) =>
        \A r \in Requests :
            LET q == http.reqs[r]
            IN  IF q.creds # "good"
                THEN /\ ~q.reached
                     /\ q.st # "routed"
                     /\ q.st = "answered" =>
                           (q.code = StatusForbidden /\ q.body = BodyUnauthorized)
                ELSE q.st = "answered" =>
                        (q.reached /\ q.code = StatusOK /\ q.body = BodyHello)

\* C14 witness: with the auth plugin, a request without credentials has been
\* answered 403 and a request with valid credentials 200.
C14_Witness ==
    /\ http.srv # "none" /\ http.auth
    /\ \E r, q \in Requests :
         /\ http.reqs[r].st = "answered" /\ http.reqs[r].creds = "none"
         /\ http.reqs[r].code = StatusForbidden
         /\ http.reqs[q].st = "answered" /\ http.reqs[q].creds = "good"
         /\ http.reqs[q].code = StatusOK

\* The value has been sent on the error channel.
Sent(v) ==
    \/ http.errChan = <<v>>
    \/ \E k \in 1..Len(http.got) : http.got[k] = v

\* C15: once the context is cancelled the serving server is shut down, and
\* nil is eventually sent on the error channel if the shutdown succeeds, an
\* error if it fails; when serving fails on its own an error is eventually
\* sent; nothing else is ever sent.
C15_ServeReportsEnd ==
    /\ (http.srv = "serving" /\ http.ctx = "cancelled" /\ ~http.sdErr) ~> Sent("nil")
    /\ (http.srv = "serving" /\ http.ctx = "cancelled" /\ http.sdErr) ~> Sent("error")
    /\ (http.srv = "failed") ~> Sent("error")
    /\ [](Sent("nil") => (~http.sdErr /\ ~http.lclosed /\ http.ctx = "cancelled"))
    /\ [](Sent("error") => (http.lclosed \/ (http.sdErr /\ http.ctx = "cancelled")))

\* C15 witness: the context was cancelled, the shutdown failed and the test
\* has received the error.
C15_Witness ==
    /\ http.srv = "ended" /\ http.ctx = "cancelled" /\ http.sdErr
    /\ http.got = <<"error">>

\* The operation of rec has made the call named what.
Called(rec, what) == \E k \in 1..Len(rec.calls) : rec.calls[k] = what

\* The registry entry of id, NoStream when there is none.
Entry(s, id) == IF id \in DOMAIN s THEN s[id] ELSE NoStream

\* C16: an UpsertStream that returns an error has not changed the registry
\* entry of the spec's ID (it is the LiveStream the call looked up, or still
\* absent), has built and activated no new LiveStream; when the error is the
\* status check's, the validation's or the persistence upsert's, the persisted
\* spec is unchanged too and the pre-existing LiveStream was not suspended.
C16_UpsertErrorFrame ==
    [][\A c \in Callers :
        (Returns(c) /\ call[c].op = "Upsert" /\ call'[c].err # ErrNone) =>
           /\ streams' = streams
           /\ Entry(streams', call[c].id) = call[c].existing
           /\ ~Called(call[c], "addStream") /\ ~Called(call[c], "ensureActive")
           /\ call[c].es = NoStream
           /\ Running(heap', call[c].id) \subseteq {call[c].existing}
           /\ pc[c] \in {"u_check", "u_persist", "u_wait", "u_init"}
           /\ pc[c] \in {"u_check", "u_persist"} =>
                 /\ table' = table
                 /\ ~Called(call[c], "Upsert") /\ ~Called(call[c], "suspend")
                 /\ call[c].existing # NoStream =>
                       heap'[call[c].existing].state = heap[call[c].existing].state
      ]_vars

\* C16 witness: UpsertStream has failed at the persistence upsert for an ID
\* whose registered LiveStream is still active.
C16_Witness ==
    \E c \in Callers :
        /\ pc[c] = "done" /\ call[c].op = "Upsert" /\ call[c].err = ErrStorage
        /\ call[c].id \in DOMAIN streams
        /\ heap[streams[call[c].id]].state \in Active

\* Caller c, inside ResetStream, takes the step it is at when its pc is at.
ResetStep(c, at) == call[c].op = "Reset" /\ pc[c] = at /\ pc'[c] # at

\* C17: ResetStream restarts the stream only when its status, the status of
\* the registered LiveStream's spec that line 257 reads, is started.  A
\* successful ResetStream of a stopped stream leaves it without tasks and
\* stopped; of a started stream, leaves it running again.  The stream's tasks
\* have stopped before the checkpoint is deleted, and the checkpoint is gone
\* before the initial sequence ID is persisted and before the restart.
C17_ResetRestartsOnlyStarted ==
    [][\A c \in Callers :
        /\ ResetStep(c, "r_delcp") => heap[call[c].es].state \notin HasTasks
        /\ ResetStep(c, "r_update") =>
              /\ call[c].id \notin DOMAIN checkpoints
              /\ heap[call[c].es].state \notin HasTasks
        /\ ResetStep(c, "r_start") =>
              /\ call[c].calls = <<"getStream", "suspend", "DeleteMany", "UpdateSparse">>
              /\ call[c].id \notin DOMAIN checkpoints
              /\ GetByID(table, call[c].id).seq = call[c].seq
              /\ heap[call[c].es].state \notin HasTasks
        /\ (Returns(c) /\ call[c].op = "Reset" /\ call'[c].err = ErrNone) =>
              /\ pc[c] = "r_start"
              /\ heap[call[c].es].status = EventStreamStatusStopped =>
                    /\ Registered(call[c].id).state \notin HasTasks
                    /\ Registered(call[c].id).status = EventStreamStatusStopped
                    /\ GetByID(table', call[c].id).status = GetByID(table, call[c].id).status
              /\ heap[call[c].es].status = EventStreamStatusStarted =>
                    /\ Registered(call[c].id).state \in Active
                    /\ Registered(call[c].id).status = EventStreamStatusStarted
      ]_vars

\* C17 witness: ResetStream has returned without error for a stream that had
\* delivered and then been stopped; it is still stopped, without checkpoint.
C17_Witness ==
    \E c \in Callers :
        /\ pc[c] = "done" /\ call[c].op = "Reset" /\ call[c].err = ErrNone
        /\ call[c].id \in DOMAIN streams
        /\ heap[streams[call[c].id]].status = EventStreamStatusStopped
        /\ heap[streams[call[c].id]].state = "stopped"
        /\ Highest(call[c].id) # NoCheckpoint
        /\ call[c].id \notin DOMAIN checkpoints

\* The errors of eventStream.delete and of the persistence delete.
DeleteFailures == {ErrSuspend, ErrStorage}

\* C18: DeleteStream removes the registry entry only once the spec row is
\* deleted.  When the LiveStream's delete or the persistence delete fails,
\* DeleteStream returns that error with the entry of id still registered: a
\* DeleteStream(id) called again finds the entry and does not return
\* not-found.
C18_DeleteKeepsEntryOnError ==
    [][\A c \in Callers :
        /\ (call[c].op = "Delete" /\ pc[c] # "idle" /\ streams' # streams) =>
              /\ pc[c] = "d_remove"
              /\ call[c].id \notin RowIDs(table)
        /\ (Returns(c) /\ call[c].op = "Delete" /\ pc[c] \in {"d_wait", "d_persist"}) =>
              /\ call'[c].err \in DeleteFailures
              /\ Entry(streams', call[c].id) = call[c].es
              /\ call[c].es # NoStream
        /\ (pc[c] = "done" /\ call[c].op = "Delete" /\ call[c].err \in DeleteFailures
              /\ pc'[c] = "get" /\ call'[c].op = "Delete" /\ call'[c].id = call[c].id) =>
              call[c].id \in DOMAIN streams'
        /\ (pc[c] = "got" /\ pc'[c] # "got" /\ call[c].op = "Delete"
              /\ call[c].id \in DOMAIN streams) =>
              (pc'[c] = "d_delete" /\ call'[c].err # Msg404NoResult)
      ]_vars

\* C18 witness: the persistence delete has failed after the LiveStream's
\* delete step; DeleteStream has returned the error and the deleted
\* LiveStream is still registered.
C18_Witness ==
    \E c \in Callers :
        /\ pc[c] = "done" /\ call[c].op = "Delete" /\ call[c].err = ErrStorage
        /\ call[c].id \in DOMAIN streams
        /\ heap[streams[call[c].id]].state = "deleted"
        /\ call[c].id \in RowIDs(table)

\* The operations C19 runs concurrently with ResetStream.
Mutations == {"Start", "Stop", "Upsert"}

\* One caller resets the stream while the other starts, stops and upserts it.
Resetter == 1
Mutator == 2

NextReset ==
    \/ \E c \in Callers : getStream(c)
    \/ \E c \in Callers : getStreamReturn(c)
    \/ ResetBegin(Resetter)
    \/ ResetSuspend(Resetter)
    \/ ResetSuspendWait(Resetter)
    \/ ResetDeleteCheckpoint(Resetter)
    \/ ResetUpdate(Resetter)
    \/ ResetStart(Resetter)
    \/ UpsertBegin(Mutator)
    \/ UpsertCheck(Mutator)
    \/ UpsertPersist(Mutator)
    \/ UpsertSuspend(Mutator)
    \/ UpsertSuspendWait(Mutator)
    \/ UpsertInit(Mutator)
    \/ UpsertAdd(Mutator)
    \/ UpsertAdded(Mutator)
    \/ UpsertActivate(Mutator)
    \/ StartBegin(Mutator)
    \/ StartStart(Mutator)
    \/ StopBegin(Mutator)
    \/ StopStop(Mutator)
    \/ StopWait(Mutator)
    \/ \E o \in Objs : ProducerRun(o)
    \/ \E o \in Objs : Deliver(o)
    \/ \E o \in Objs : TaskExit(o)

SpecReset == Init /\ [][NextReset]_vars

\* C19 (as claimed): ResetStream is safe under a concurrent StartStream,
\* StopStream or UpsertStream of the same ID: once ResetStream and the other
\* call have both returned without error, no LiveStream of the ID delivers
\* from a position it took before the reset deleted the checkpoint (and
\* so none writes a checkpoint that continues the deleted one).
C19_ResetSafeUnderMutation ==
    \A c, d \in Callers :
        (/\ c # d
         /\ pc[c] = "done" /\ call[c].op = "Reset" /\ call[c].err = ErrNone
         /\ pc[d] = "done" /\ call[d].op \in Mutations /\ call[d].err = ErrNone
         /\ call[d].id = call[c].id)
        => \A o \in Objs : heap[o].id = call[c].id => ~heap[o].old

\* Two callers upsert the same stream concurrently.
NextUpsert ==
    \/ \E c \in Callers : getStream(c)
    \/ \E c \in Callers : getStreamReturn(c)
    \/ \E c \in Callers : UpsertBegin(c)
    \/ \E c \in Callers : UpsertCheck(c)
    \/ \E c \in Callers : UpsertPersist(c)
    \/ \E c \in Callers : UpsertSuspend(c)
    \/ \E c \in Callers : UpsertSuspendWait(c)
    \/ \E c \in Callers : UpsertInit(c)
    \/ \E c \in Callers : UpsertAdd(c)
    \/ \E c \in Callers : UpsertAdded(c)
    \/ \E c \in Callers : UpsertActivate(c)
    \/ \E o \in Objs : ProducerRun(o)
    \/ \E o \in Objs : Deliver(o)
    \/ \E o \in Objs : TaskExit(o)

SpecUpsert == Init /\ [][NextUpsert]_vars

\* C20 (as claimed): at most one LiveStream of a stream ID has running tasks,
\* and a LiveStream with running tasks is the one registered for its ID: with
\* concurrent UpsertStream calls for the same ID, no LiveStream that was
\* replaced in the registry is left running.
C20_OneRunningPerID ==
    \A o \in Objs :
        heap[o].state \in HasTasks =>
            /\ Running(heap, heap[o].id) = {o}
            /\ Entry(streams, heap[o].id) = o

\* Three callers stop, start and upsert the same stream concurrently.
NextMutate ==
    \/ \E c \in Callers : getStream(c)
    \/ \E c \in Callers : getStreamReturn(c)
    \/ \E c \in Callers : UpsertBegin(c)
    \/ \E c \in Callers : UpsertCheck(c)
    \/ \E c \in Callers : UpsertPersist(c)
    \/ \E c \in Callers : UpsertSuspend(c)
    \/ \E c \in Callers : UpsertSuspendWait(c)
    \/ \E c \in Callers : UpsertInit(c)
    \/ \E c \in Callers : UpsertAdd(c)
    \/ \E c \in Callers : UpsertAdded(c)
    \/ \E c \in Callers : UpsertActivate(c)
    \/ \E c \in Callers : StartBegin(c)
    \/ \E c \in Callers : StartStart(c)
    \/ \E c \in Callers : StopBegin(c)
    \/ \E c \in Callers : StopStop(c)
    \/ \E c \in Callers : StopWait(c)
    \/ \E o \in Objs : ProducerRun(o)
    \/ \E o \in Objs : Deliver(o)
    \/ \E o \in Objs : TaskExit(o)

InitMutate == InitManager(3, {1}, MaxOps) /\ http = NoServer
SpecMutate == InitMutate /\ [][NextMutate]_vars

\* No operation is in progress, and every operation started so far is the
\* last one of its caller and has returned without error.
QuietNoError ==
    /\ \A c \in Callers : pc[c] \in {"idle", "done"}
    /\ \A c \in Callers : pc[c] = "done" => call[c].err = ErrNone
    /\ MaxOps - left = Cardinality({c \in Callers : pc[c] = "done"})

\* The persisted status of id is started iff its registered LiveStream is
\* active.
StatusAgrees(id) ==
    GetByID(table, id).status = EventStreamStatusStarted
        <=> (id \in DOMAIN streams /\ heap[streams[id]].state \in Active)

\* C21 (as claimed): whenever no operation is in progress and every operation
\* so far returned without error, each persisted spec that is not deleted has
\* status started iff its registered LiveStream is active, also when
\* StopStream, StartStream and UpsertStream of one ID run concurrently.
C21_StatusAgreesWhenQuiet ==
    QuietNoError =>
        \A id \in RowIDs(table) :
            GetByID(table, id).status # EventStreamStatusDeleted => StatusAgrees(id)

\* The IDs of the persisted specs whose status is not deleted.
LiveRowIDs == {table[k].id : k \in {j \in 1..Len(table) :
                                      table[j].status # EventStreamStatusDeleted}}

\* C22 (as claimed): after a successful startup and any sequence of
\* operations run one at a time, succeeding or failing, the IDs of the
\* registry are the IDs of the persisted specs whose status is not deleted.
C22_RegistryAgreesWithPersistence ==
    (boot.pc = "done" /\ boot.err = ErrNone
       /\ \A c \in Callers : pc[c] \in {"idle", "done"})
    => DOMAIN streams = LiveRowIDs

\* No manager operation is in progress.
Quiet == \A c \in Callers : pc[c] \in {"idle", "done"}

\* The registered LiveStream of id holds the persisted initial sequence ID.
SeqAgrees(id) == heap[streams[id]].seq = GetByID(table, id).seq

\* Caller c's last operation was a ResetStream of a registered stream that
\* returned an error.
ResetFailed(c) ==
    /\ pc[c] = "done" /\ call[c].op = "Reset" /\ call[c].err # ErrNone
    /\ call[c].id \in DOMAIN streams \cap RowIDs(table)

\* C23 (as claimed): whenever no operation is in progress, a registered
\* LiveStream's in-memory initial sequence ID is the persisted one, also
\* after a ResetStream that returned an error; and such a ResetStream does
\* not leave a stream whose persisted status is started without running tasks.
C23_ResetErrorKeepsAgreement ==
    Quiet =>
        /\ \A id \in DOMAIN streams \cap RowIDs(table) : SeqAgrees(id)
        /\ \A c \in Callers :
              (ResetFailed(c)
                 /\ GetByID(table, call[c].id).status = EventStreamStatusStarted)
              => heap[streams[call[c].id]].state \in HasTasks

====
